---- MODULE Spec2Model ----
(***************************************************************************)
(* PricePulse30Bot: the subscription registry (BotService.chats), the      *)
(* inbound command/action handlers, the recurring job registered with      *)
(* SchedulerService and the broadcast tick (BotService.sendPriceUpdate).   *)
(*                                                                         *)
(* A JavaScript Map and Set iterate in insertion order, so both are        *)
(* modelled as duplicate-free sequences: chats is a sequence of entries    *)
(* [id, subs] and subs is a sequence of pair identifiers.                  *)
(***************************************************************************)
EXTENDS Integers, Sequences, FiniteSets, TLC

VARIABLES chats, jobs, timers, ticks, nUpdates, trace, alive, handlerRejected

vars ==
    <<chats, jobs, timers, ticks, nUpdates, trace, alive, handlerRejected>>

\* ------------------------------------------------------------------ bounds
\* Inbound updates that change the registry in one run of Spec.
MaxUpdates == 2
\* Timer firings (started ticks) in one run of Spec.
MaxTicks == 1
\* Direct handler calls in one run of RegistrySpec.
MaxCalls == 5
\* Scheduler calls and timer firings in one run of SchedulerSpec.
MaxSchedOps == 4

\* --------------------------------------------------------------- constants
\* BotService.currencies, in the Map's insertion order.
currencies == <<"USDTIRT", "BTCIRT">>

\* Callback data toggle_currency_(.+) can carry any identifier.
UntrackedIds == {"FOO"}

\* Private chats. Every new chat costs one change of the registry, so no
\* run registers more than MaxUpdates (MaxCalls) of them.
PrivateChats == 1..(IF MaxUpdates > MaxCalls THEN MaxUpdates ELSE MaxCalls)
\* A group chat: neither private nor a channel/supergroup named in USERNAMES.
GroupChat == 0
\* The quote the price source returns when it answers.
Quote == 58000

\* ----------------------------------------------------------------- helpers
Range(s) == {s[i] : i \in 1..Len(s)}

Last(s) == s[Len(s)]

Min(S) == CHOOSE x \in S : \A y \in S : x <= y

Tracked == Range(currencies)

PairIds == Tracked \cup UntrackedIds

\* ------------------------------------------------- Map<number, {Set}> / Set
\* Map.prototype.has
MapHas(reg, c) == \E i \in 1..Len(reg) : reg[i].id = c

MapIndex(reg, c) == CHOOSE i \in 1..Len(reg) : reg[i].id = c

\* Map.prototype.get(c).subscribedCurrencies of a present key
SubsOf(reg, c) == reg[MapIndex(reg, c)].subs

\* A set() written as delete-then-insert: a present key moves to the end.
MapSetMovesLast(reg, c, s) ==
    Append(SelectSeq(reg, LAMBDA e : e.id # c), [id |-> c, subs |-> s])

\* Map.prototype.set: a present key keeps its position, a new key goes last.
MapSet(reg, c, s) ==
    IF MapHas(reg, c)
    THEN [reg EXCEPT ![MapIndex(reg, c)].subs = s]
    ELSE Append(reg, [id |-> c, subs |-> s])

SetHas(s, x) == x \in Range(s)

\* Set.prototype.add: a member keeps its position, a new one goes last.
SetAdd(s, x) == IF SetHas(s, x) THEN s ELSE Append(s, x)

\* Set.prototype.delete
SetDelete(s, x) == SelectSeq(s, LAMBDA y : y # x)

\* ------------------------------------------------------- inbound handlers
\* Each handler is its code applied to the registry: the resulting registry
\* and the error it throws ("none" when it returns normally).

\* A condition that lets every chat through.
ChatAllowedAnyChat(c) == c \in PrivateChats \cup {GroupChat}

\* hasPrivate || USERNAMES.includes(username)
ChatAllowed(c) == c \in PrivateChats

\* A middleware that sets the entry without the has() test.
initializeChatIfAbsentResets(reg, c) ==
    IF ChatAllowed(c)
    THEN [reg |-> MapSet(reg, c, <<>>), next |-> TRUE]
    ELSE [reg |-> reg, next |-> FALSE]

\* initializeChatIfAbsent: creates the entry of an allowed chat and calls
\* next(); any other chat is dropped without reaching a handler.
initializeChatIfAbsent(reg, c) ==
    IF ChatAllowed(c)
    THEN [reg  |-> IF MapHas(reg, c) THEN reg ELSE MapSet(reg, c, <<>>),
          next |-> TRUE]
    ELSE [reg |-> reg, next |-> FALSE]

\* A swapped spread, { subscribedCurrencies: new Set(), ...user }: the old
\* set of a known chat wins.
handleUnsubscribeCommandKeepsUser(reg, c) ==
    [reg |-> MapSet(reg, c, IF MapHas(reg, c) THEN SubsOf(reg, c) ELSE <<>>),
     err |-> "none"]

\* An unsubscribe that deletes the entry of the chat.
handleUnsubscribeCommandDeletes(reg, c) ==
    [reg |-> SelectSeq(reg, LAMBDA e : e.id # c), err |-> "none"]

\* handleUnsubscribeCommand: { ...user, subscribedCurrencies: new Set() };
\* spreading an undefined user adds nothing, so an absent chat gets an entry.
handleUnsubscribeCommand(reg, c) ==
    [reg |-> MapSet(reg, c, <<>>), err |-> "none"]

\* createCurrencyKeyboard: one button per key of currencies, in the order
\* of the table, marked active when the chat's set has the key.
createCurrencyKeyboard(reg, c) ==
    [i \in 1..Len(currencies) |->
        [currency |-> currencies[i],
         isActive |-> SetHas(SubsOf(reg, c), currencies[i])]]

\* A toggle that sets the entry before it reads it.
handleToggleCurrencyActionCreates(reg, c, currency) ==
    LET old == IF MapHas(reg, c) THEN SubsOf(reg, c) ELSE <<>>
    IN  [reg |-> MapSet(reg, c, IF SetHas(old, currency)
                                THEN SetDelete(old, currency)
                                ELSE SetAdd(old, currency)),
         err |-> "none", kb |-> <<>>]

\* A toggle that replaces the set by the toggled pair alone.
handleToggleCurrencyActionSingle(reg, c, currency) ==
    IF ~MapHas(reg, c)
    THEN [reg |-> reg, err |-> "TypeError", kb |-> <<>>]
    ELSE [reg |-> MapSet(reg, c, IF SetHas(SubsOf(reg, c), currency)
                                 THEN <<>> ELSE <<currency>>),
          err |-> "none", kb |-> <<>>]

\* A toggle that only ever adds.
handleToggleCurrencyActionAddOnly(reg, c, currency) ==
    IF ~MapHas(reg, c)
    THEN [reg |-> reg, err |-> "TypeError", kb |-> <<>>]
    ELSE [reg |-> MapSet(reg, c, SetAdd(SubsOf(reg, c), currency)),
          err |-> "none", kb |-> <<>>]

\* handleToggleCurrencyAction: destructuring chats.get(chatId) of an absent
\* chat throws a TypeError before anything is written; otherwise a copy of
\* the set, with the identifier removed or added, replaces the entry. The
\* identifier is not compared with the keys of currencies. kb is the
\* keyboard passed to editMessageText, built from the entry just written.
handleToggleCurrencyAction(reg, c, currency) ==
    IF ~MapHas(reg, c)
    THEN [reg |-> reg, err |-> "TypeError", kb |-> <<>>]
    ELSE LET subscribedCurrencies == SubsOf(reg, c)
             updatedSubscribedCurrencies ==
                 IF SetHas(subscribedCurrencies, currency)
                 THEN SetDelete(subscribedCurrencies, currency)
                 ELSE SetAdd(subscribedCurrencies, currency)
             updated == MapSet(reg, c, updatedSubscribedCurrencies)
         IN  [reg |-> updated, err |-> "none",
              kb  |-> createCurrencyKeyboard(updated, c)]

\* A confirm that commits by writing a fresh set, as /unsubscribe does.
handleConfirmCurrencyActionResets(reg, c) ==
    IF ~MapHas(reg, c)
    THEN [reg |-> reg, err |-> "TypeError"]
    ELSE [reg |-> MapSet(reg, c, <<>>), err |-> "none"]

\* handleConfirmCurrencyAction: reads the entry, writes nothing.
handleConfirmCurrencyAction(reg, c) ==
    IF ~MapHas(reg, c)
    THEN [reg |-> reg, err |-> "TypeError"]
    ELSE [reg |-> reg, err |-> "none"]

\* The handler a command or action is routed to. /start and /subscribe only
\* reply.
Commands == {"start", "subscribe", "unsubscribe", "toggle", "confirm"}

Handle(reg, cmd, c, currency) ==
    CASE cmd = "unsubscribe" -> handleUnsubscribeCommand(reg, c)
      [] cmd = "toggle"      -> handleToggleCurrencyAction(reg, c, currency)
      [] cmd = "confirm"     -> handleConfirmCurrencyAction(reg, c)
      [] OTHER               -> [reg |-> reg, err |-> "none"]

\* bot.use(initializeChatIfAbsent) runs before every handler.
Dispatch(reg, cmd, c, currency) ==
    LET mw == initializeChatIfAbsent(reg, c)
    IN  IF mw.next THEN Handle(mw.reg, cmd, c, currency).reg ELSE mw.reg

\* The promise of next() rejects when the handler throws, and the promise
\* of the handler's Telegram call (reply, editMessageText, answerCbQuery)
\* rejects when the call fails. Neither is awaited, returned or caught, so
\* bot.catch never sees the error.
HandlerRejects(reg, cmd, c, currency, ok) ==
    LET mw == initializeChatIfAbsent(reg, c)
    IN  mw.next /\ (Handle(mw.reg, cmd, c, currency).err # "none" \/ ~ok)

\* ------------------------------------------------------------ the tick
\* One invocation of sendPriceUpdate:
\*   pc    "skipped"  returned at the size check
\*         "fetching" awaiting Promise.all of the fetches
\*         "sending"  awaiting bot.telegram.sendMessage
\*         "done"     the loop ended
\*         "rejected" a send threw and the promise of the tick rejected
\*   start  the registry when the tick started (history, never read by the
\*          tick)
\*   fetch  per tracked pair "none", "pending", "ok" or "fail"
\*   calls  per tracked pair the number of getCurrencyPrice calls
\*   idx    the position of the Map iterator
\*   sent   the sendMessage calls, each with the chat, the set read from the
\*          entry, the lines joined after the header and the outcome

\* A tick that fetches every pair once for every registered chat.
sendPriceUpdateStartPerChat(reg) ==
    [pc    |-> IF Len(reg) = 0 THEN "skipped" ELSE "fetching",
     start |-> reg,
     fetch |-> [p \in Tracked |-> IF Len(reg) = 0 THEN "none" ELSE "pending"],
     calls |-> [p \in Tracked |-> Len(reg)],
     idx   |-> 0,
     sent  |-> <<>>]

\* A tick without the size check.
sendPriceUpdateStartNoCheck(reg) ==
    [pc    |-> "fetching",
     start |-> reg,
     fetch |-> [p \in Tracked |-> "pending"],
     calls |-> [p \in Tracked |-> 1],
     idx   |-> 0,
     sent  |-> <<>>]

\* sendPriceUpdate up to its first await: the size check, then one
\* getCurrencyPrice call per entry of currencies, all started before
\* Promise.all is awaited.
sendPriceUpdateStart(reg) ==
    IF Len(reg) = 0
    THEN [pc    |-> "skipped",
          start |-> reg,
          fetch |-> [p \in Tracked |-> "none"],
          calls |-> [p \in Tracked |-> 0],
          idx   |-> 0,
          sent  |-> <<>>]
    ELSE [pc    |-> "fetching",
          start |-> reg,
          fetch |-> [p \in Tracked |-> "pending"],
          calls |-> [p \in Tracked |-> 1],
          idx   |-> 0,
          sent  |-> <<>>]

\* The entry of messageMap for a tracked pair: the price line, or the error
\* line of the catch block.
MessageLine(fetch, p) ==
    IF fetch[p] = "ok"
    THEN [pair |-> p, kind |-> "price", price |-> Quote]
    ELSE [pair |-> p, kind |-> "error", price |-> 0]

\* Lines in the order of the currencies table.
CurrencyMessagesTableOrder(fetch, subs) ==
    LET tracked == SelectSeq(currencies, LAMBDA p : SetHas(subs, p))
    IN  [i \in 1..Len(tracked) |-> MessageLine(fetch, tracked[i])]

\* Array.from(subscribedCurrencies).map(messageMap.get).filter(Boolean):
\* an identifier that is no key of messageMap yields undefined and is
\* dropped.
CurrencyMessages(fetch, subs) ==
    LET tracked == SelectSeq(subs, LAMBDA p : p \in Tracked)
    IN  [i \in 1..Len(tracked) |-> MessageLine(fetch, tracked[i])]

\* A loop that does not skip an empty set.
NextRecipientAny(reg, from) ==
    IF from <= Len(reg) THEN from ELSE 0

\* The for..of loop over this.chats from position `from`: the first entry
\* whose set is not empty, 0 when the iterator is exhausted. The iterator
\* is live: it reads the registry as it is when it advances.
NextRecipient(reg, from) ==
    LET cands == {i \in from..Len(reg) : Len(reg[i].subs) > 0}
    IN  IF cands = {} THEN 0 ELSE Min(cands)

\* A loop that calls sendMessage for every recipient left without awaiting.
RunLoopNoAwait(tk, reg, from) ==
    LET left == SelectSeq([i \in 1..Len(reg) |-> i],
                          LAMBDA i : i >= from /\ Len(reg[i].subs) > 0)
    IN  IF left = <<>>
        THEN [tk EXCEPT !.pc = "done", !.idx = Len(reg)]
        ELSE [tk EXCEPT !.pc = "sending",
                        !.idx = Last(left),
                        !.sent = @ \o
                            [n \in 1..Len(left) |->
                                [chat   |-> reg[left[n]].id,
                                 subs   |-> reg[left[n]].subs,
                                 lines  |-> CurrencyMessages(tk.fetch,
                                                reg[left[n]].subs),
                                 status |-> "pending"]]]

\* The loop from position `from` to its next await: sendMessage is called
\* for the next recipient, or the loop ends.
RunLoop(tk, reg, from) ==
    LET i == NextRecipient(reg, from)
    IN  IF i = 0
        THEN [tk EXCEPT !.pc = "done", !.idx = Len(reg)]
        ELSE [tk EXCEPT !.pc = "sending",
                        !.idx = i,
                        !.sent = Append(@,
                            [chat   |-> reg[i].id,
                             subs   |-> reg[i].subs,
                             lines  |-> CurrencyMessages(tk.fetch, reg[i].subs),
                             status |-> "pending"])]

\* A tick that goes on to the loop as soon as one fetch has settled.
FetchSettledFirst(tk, reg, p, ok) ==
    RunLoop([tk EXCEPT !.fetch[p] = IF ok THEN "ok" ELSE "fail"], reg, 1)

\* A fetch settles. The async callback of a failed fetch returns the error
\* line, so Promise.all never rejects; when the last fetch settles the tick
\* resumes and runs to its first send in the same turn.
FetchSettled(tk, reg, p, ok) ==
    LET fetched == [tk EXCEPT !.fetch[p] = IF ok THEN "ok" ELSE "fail"]
    IN  IF \A q \in Tracked : fetched.fetch[q] \in {"ok", "fail"}
        THEN RunLoop(fetched, reg, 1)
        ELSE fetched

\* A send settles: the loop goes on after a delivered message; a thrown
\* sendMessage is not caught in the loop and rejects the tick's promise.
SendSettled(tk, reg, ok) ==
    LET n == Len(tk.sent)
    IN  IF ok
        THEN RunLoop([tk EXCEPT !.sent[n].status = "ok"], reg, tk.idx + 1)
        ELSE [tk EXCEPT !.sent[n].status = "fail", !.pc = "rejected"]

\* ---------------------------------------------------------- the scheduler
\* SchedulerService: jobs maps a name to the timer recorded under it (0: no
\* entry); timers lists every timer setInterval/setTimeout created, a
\* timer's id being its position:
\*   name  the job name it was registered under
\*   type  "interval" or "timeout"
\*   task  what the task does when invoked
\*   live  not cleared and, for a timeout, not yet fired
\*   runs  the number of invocations of its task
JobName == "sendPriceUpdate"

JobNames == {JobName, "cleanup"}

\* What a task does: return, throw, or call the scheduler for its own name.
Tasks == {"plain", "throws", "reJob", "reOnce", "cancel"}

NoJobs == [jobs |-> [n \in JobNames |-> 0], timers |-> <<>>]

\* clearInterval / clearTimeout: in Node either clears a timer of either
\* type; clearing a timer that fired or was cleared does nothing.
ClearTimer(tm, id) == [tm EXCEPT ![id].live = FALSE]

NewTimer(name, type, task) ==
    [name |-> name, type |-> type, task |-> task, live |-> TRUE, runs |-> 0]

\* scheduleJob
scheduleJob(s, name, task) ==
    LET cleared == IF s.jobs[name] # 0
                   THEN ClearTimer(s.timers, s.jobs[name])
                   ELSE s.timers
        tm == Append(cleared, NewTimer(name, "interval", task))
    IN  [jobs |-> [s.jobs EXCEPT ![name] = Len(tm)], timers |-> tm]

\* A cancel that forgets the entry and leaves the timer running.
cancelJobNoClear(s, name) ==
    [jobs |-> [s.jobs EXCEPT ![name] = 0], timers |-> s.timers]

\* cancelJob
cancelJob(s, name) ==
    IF s.jobs[name] # 0
    THEN [jobs   |-> [s.jobs EXCEPT ![name] = 0],
          timers |-> ClearTimer(s.timers, s.jobs[name])]
    ELSE s

\* scheduleOnce: the registration.
scheduleOnce(s, name, task) ==
    LET cleared == IF s.jobs[name] # 0
                   THEN ClearTimer(s.timers, s.jobs[name])
                   ELSE s.timers
        tm == Append(cleared, NewTimer(name, "timeout", task))
    IN  [jobs |-> [s.jobs EXCEPT ![name] = Len(tm)], timers |-> tm]

\* task(): the calls a task makes on the scheduler.
RunTask(s, name, task) ==
    CASE task = "reJob"  -> scheduleJob(s, name, "plain")
      [] task = "reOnce" -> scheduleOnce(s, name, "plain")
      [] task = "cancel" -> cancelJob(s, name)
      [] OTHER           -> s

\* A timer fires. An interval invokes its task. A timeout has expired and
\* runs the callback of scheduleOnce: task(), then delete this.jobs[name],
\* which removes whatever entry the name holds by then and is not reached
\* when the task throws.
FireTimer(s, id) ==
    LET t  == s.timers[id]
        s1 == [s EXCEPT !.timers[id].runs = @ + 1,
                        !.timers[id].live = (t.type = "interval")]
        s2 == RunTask(s1, t.name, t.task)
    IN  IF t.type = "timeout" /\ t.task # "throws"
        THEN [s2 EXCEPT !.jobs[t.name] = 0]
        ELSE s2

\* ------------------------------------------------------------- the program
\* After onModuleInit: an empty registry and the recurring job registered.
Registered == scheduleJob(NoJobs, JobName, "sendPriceUpdate")

Init ==
    /\ chats = <<>>
    /\ jobs = Registered.jobs
    /\ timers = Registered.timers
    /\ ticks = <<>>
    /\ nUpdates = 0
    /\ trace = <<>>
    /\ alive = TRUE
    /\ handlerRejected = FALSE

\* An update from chat c: the middleware, then the handler of the command.
\* Chat identifiers are opaque, so the k-th chat to reach the bot is named k;
\* nUpdates counts the updates that change the registry, at most n of them.
\* ok tells whether the Telegram call of the handler succeeds; Spec follows
\* the runs in which it does, HandlerSpec those in which it may fail.
UpdateStep(n, c, cmd, currency, ok) ==
    /\ alive
    /\ nUpdates < n
    /\ c <= Len(chats) + 1
    /\ chats' = Dispatch(chats, cmd, c, currency)
    /\ nUpdates' = IF chats' = chats THEN nUpdates ELSE nUpdates + 1
    /\ handlerRejected' =
           (handlerRejected \/ HandlerRejects(chats, cmd, c, currency, ok))
    /\ UNCHANGED <<jobs, timers, ticks, alive>>

UpdateWithin(n, c, cmd, currency, ok) ==
    UpdateStep(n, c, cmd, currency, ok) /\ UNCHANGED trace

Update(c, cmd, currency, ok) == UpdateWithin(MaxUpdates, c, cmd, currency, ok)

\* The timer fires without starting a tick while one is in flight.
TimerFireWithinIdle(n) ==
    /\ alive
    /\ \E id \in 1..Len(timers) :
           /\ timers[id].live
           /\ timers[id].task = "sendPriceUpdate"
           /\ LET s == FireTimer([jobs |-> jobs, timers |-> timers], id)
              IN  jobs' = s.jobs /\ timers' = s.timers
    /\ Len(ticks) < n
    /\ ticks' = IF \E t \in 1..Len(ticks) : ticks[t].pc \in {"fetching", "sending"}
                THEN ticks
                ELSE Append(ticks, sendPriceUpdateStart(chats))
    /\ UNCHANGED <<chats, nUpdates, trace, alive, handlerRejected>>

\* The interval timer of the job fires: () => { this.sendPriceUpdate(); }
\* is invoked whatever earlier invocations are doing; at most n ticks.
TimerFireWithin(n) ==
    /\ alive
    /\ \E id \in 1..Len(timers) :
           /\ timers[id].live
           /\ timers[id].task = "sendPriceUpdate"
           /\ LET s == FireTimer([jobs |-> jobs, timers |-> timers], id)
              IN  jobs' = s.jobs /\ timers' = s.timers
    /\ Len(ticks) < n
    /\ ticks' = Append(ticks, sendPriceUpdateStart(chats))
    /\ UNCHANGED <<chats, nUpdates, trace, alive, handlerRejected>>

TimerFire == TimerFireWithin(MaxTicks)

\* The price source answers or fails for pair p of tick t.
FetchResolve(t, p, ok) ==
    /\ alive
    /\ ticks[t].pc = "fetching"
    /\ ticks[t].fetch[p] = "pending"
    /\ ticks' = [ticks EXCEPT ![t] = FetchSettled(@, chats, p, ok)]
    /\ UNCHANGED <<chats, jobs, timers, nUpdates, trace, alive, handlerRejected>>

\* The notifier delivers or fails the outstanding send of tick t.
SendResolve(t, ok) ==
    /\ alive
    /\ ticks[t].pc = "sending"
    /\ Last(ticks[t].sent).status = "pending"
    /\ ticks' = [ticks EXCEPT ![t] = SendSettled(@, chats, ok)]
    /\ UNCHANGED <<chats, jobs, timers, nUpdates, trace, alive, handlerRejected>>

\* A promise rejected with no handler. The task of the job,
\* () => { this.sendPriceUpdate(); }, drops the promise of the tick, the
\* middleware drops the promise of next() and the handlers drop the promises
\* of their Telegram calls. Node 15 and later (the README asks for 16 or
\* higher) end the process on an unhandled rejection by default; started
\* with --unhandled-rejections=warn the process goes on, which is the run
\* in which this step is never taken.
UnhandledRejection ==
    /\ alive
    /\ \/ handlerRejected
       \/ \E t \in 1..Len(ticks) : ticks[t].pc = "rejected"
    /\ alive' = FALSE
    /\ UNCHANGED <<chats, jobs, timers, ticks, nUpdates, trace, handlerRejected>>

Next ==
    \/ \E c \in PrivateChats \cup {GroupChat}, cmd \in Commands :
           \E currency \in (IF cmd = "toggle" THEN PairIds ELSE {"-"}) :
               Update(c, cmd, currency, TRUE)
    \/ TimerFire
    \/ \E t \in 1..Len(ticks), p \in Tracked, ok \in BOOLEAN :
           FetchResolve(t, p, ok)
    \/ \E t \in 1..Len(ticks), ok \in BOOLEAN : SendResolve(t, ok)
    \/ UnhandledRejection

Spec == Init /\ [][Next]_vars

\* ------------------------------------------------------ overlapping ticks
\* The program with the timer firing once more than in Spec, after one
\* update less: room for a tick to start while another is in flight.
OverlapNext ==
    \/ \E c \in PrivateChats \cup {GroupChat}, cmd \in Commands :
           \E currency \in (IF cmd = "toggle" THEN PairIds ELSE {"-"}) :
               UpdateWithin(MaxUpdates - 1, c, cmd, currency, TRUE)
    \/ TimerFireWithin(MaxTicks + 1)
    \/ \E t \in 1..Len(ticks), p \in Tracked, ok \in BOOLEAN :
           FetchResolve(t, p, ok)
    \/ \E t \in 1..Len(ticks), ok \in BOOLEAN : SendResolve(t, ok)
    \/ UnhandledRejection

OverlapSpec == Init /\ [][OverlapNext]_vars

\* ------------------------------------------------ failing Telegram calls
\* The program with handlers whose Telegram call may fail.
HandlerNext ==
    \/ \E c \in PrivateChats \cup {GroupChat}, cmd \in Commands :
           \E currency \in (IF cmd = "toggle" THEN PairIds ELSE {"-"}) :
               \E ok \in BOOLEAN : Update(c, cmd, currency, ok)
    \/ TimerFire
    \/ \E t \in 1..Len(ticks), p \in Tracked, ok \in BOOLEAN :
           FetchResolve(t, p, ok)
    \/ \E t \in 1..Len(ticks), ok \in BOOLEAN : SendResolve(t, ok)
    \/ UnhandledRejection

HandlerSpec == Init /\ [][HandlerNext]_vars

\* ------------------------------------------------- cancelling the job
\* The program with a caller of SchedulerService.cancelJob for the job of
\* the bot. trace records the cancellation: the ticks in flight then and
\* the number of ticks started.
InFlight(tks) == {t \in 1..Len(tks) : tks[t].pc \in {"fetching", "sending"}}

CancelJob ==
    /\ alive
    /\ jobs[JobName] # 0
    /\ LET s == cancelJob([jobs |-> jobs, timers |-> timers], JobName)
       IN  jobs' = s.jobs /\ timers' = s.timers
    /\ trace' = <<[op |-> "cancelJob", inflight |-> InFlight(ticks),
                   started |-> Len(ticks)]>>
    /\ UNCHANGED <<chats, ticks, nUpdates, alive, handlerRejected>>

CancelNext ==
    \/ \E c \in PrivateChats \cup {GroupChat}, cmd \in Commands :
           \E currency \in (IF cmd = "toggle" THEN PairIds ELSE {"-"}) :
               Update(c, cmd, currency, TRUE)
    \/ TimerFire
    \/ \E t \in 1..Len(ticks), p \in Tracked, ok \in BOOLEAN :
           FetchResolve(t, p, ok)
    \/ \E t \in 1..Len(ticks), ok \in BOOLEAN : SendResolve(t, ok)
    \/ UnhandledRejection
    \/ CancelJob

CancelSpec == Init /\ [][CancelNext]_vars

\* ----------------------------------------------- calls that never complete
\* getCurrencyPrice awaits axios.get(url) with no timeout option and no
\* AbortSignal; sendPriceUpdate awaits sendMessage with no timeout and races
\* neither against a timer. A request the remote side never answers leaves
\* its promise pending: the call is marked "stalled" and never settles.
StallFetch(t, p) ==
    /\ alive
    /\ ticks[t].pc = "fetching"
    /\ ticks[t].fetch[p] = "pending"
    /\ ticks' = [ticks EXCEPT ![t].fetch[p] = "stalled"]
    /\ UNCHANGED <<chats, jobs, timers, nUpdates, trace, alive, handlerRejected>>

StallSend(t) ==
    /\ alive
    /\ ticks[t].pc = "sending"
    /\ Last(ticks[t].sent).status = "pending"
    /\ ticks' = [ticks EXCEPT ![t].sent[Len(ticks[t].sent)].status = "stalled"]
    /\ UNCHANGED <<chats, jobs, timers, nUpdates, trace, alive, handlerRejected>>

LiveNext ==
    \/ \E c \in PrivateChats \cup {GroupChat}, cmd \in Commands :
           \E currency \in (IF cmd = "toggle" THEN PairIds ELSE {"-"}) :
               Update(c, cmd, currency, TRUE)
    \/ TimerFire
    \/ \E t \in 1..Len(ticks), p \in Tracked, ok \in BOOLEAN :
           FetchResolve(t, p, ok)
    \/ \E t \in 1..Len(ticks), ok \in BOOLEAN : SendResolve(t, ok)
    \/ UnhandledRejection
    \/ \E t \in 1..Len(ticks), p \in Tracked : StallFetch(t, p)
    \/ \E t \in 1..Len(ticks) : StallSend(t)

\* The event loop runs every callback that is due: the timer fires, a call
\* that has not stalled settles and its continuation runs, an unhandled
\* rejection is acted on. Nothing obliges a user to send an update or a
\* remote side to stall.
LiveFairness ==
    /\ WF_vars(TimerFire)
    /\ WF_vars(UnhandledRejection)
    /\ \A t \in 1..MaxTicks :
           /\ WF_vars(\E p \in Tracked, ok \in BOOLEAN :
                          t <= Len(ticks) /\ FetchResolve(t, p, ok))
           /\ WF_vars(\E ok \in BOOLEAN :
                          t <= Len(ticks) /\ SendResolve(t, ok))

LiveSpec == Init /\ [][LiveNext]_vars /\ LiveFairness

\* ------------------------------------------------------ the inbound events
\* The updates with a record of the last one: the chat, the command, the
\* registry and the rejection flag before it, and whether the middleware
\* called next().
UpdateTraced(c, cmd, currency, ok) ==
    /\ UpdateStep(MaxUpdates, c, cmd, currency, ok)
    /\ trace' = <<[chat     |-> c,
                   cmd      |-> cmd,
                   cur      |-> currency,
                   pre      |-> chats,
                   rejected |-> handlerRejected,
                   next     |-> initializeChatIfAbsent(chats, c).next]>>

InboundNext ==
    \/ \E c \in PrivateChats \cup {GroupChat}, cmd \in Commands :
           \E currency \in (IF cmd = "toggle" THEN PairIds ELSE {"-"}) :
               \E ok \in BOOLEAN : UpdateTraced(c, cmd, currency, ok)
    \/ UnhandledRejection

InboundSpec == Init /\ [][InboundNext]_vars

\* ------------------------------------------------- the handlers on their own
\* The registry operations called one at a time, as a caller of the handlers
\* would: ensure (the middleware), toggle, clear (/unsubscribe) and confirm.
\* trace records every call with the registry it ran on and the error it
\* threw; nUpdates counts the calls.
Operations == {"ensure", "toggle", "clear", "confirm"}

Apply(reg, op, c, currency) ==
    CASE op = "ensure"  -> [reg |-> initializeChatIfAbsent(reg, c).reg,
                            err |-> "none"]
      [] op = "toggle"  -> handleToggleCurrencyAction(reg, c, currency)
      [] op = "clear"   -> handleUnsubscribeCommand(reg, c)
      [] op = "confirm" -> handleConfirmCurrencyAction(reg, c)

CallWithin(n, op, c, currency) ==
    /\ nUpdates < n
    /\ c <= Len(chats) + 1
    /\ LET res == Apply(chats, op, c, currency)
       IN  /\ chats' = res.reg
           /\ trace' = Append(trace, [op  |-> op,  chat |-> c,
                                      cur |-> currency,
                                      err |-> res.err, pre |-> chats,
                                      kb  |-> IF op = "toggle"
                                              THEN res.kb ELSE <<>>])
    /\ nUpdates' = nUpdates + 1
    /\ UNCHANGED <<jobs, timers, ticks, alive, handlerRejected>>

Call(op, c, currency) == CallWithin(MaxCalls, op, c, currency)

RegistryNext ==
    \E c \in PrivateChats, op \in Operations :
        \E currency \in (IF op = "toggle" THEN PairIds ELSE {"-"}) :
            Call(op, c, currency)

RegistrySpec == Init /\ [][RegistryNext]_vars

\* ------------------------------------------------- the order of a digest
\* One chat whose set holds tracked pairs in any order it can have toggled
\* them on in; the chat toggles any identifier (trace records the calls,
\* as in RegistrySpec) and the job fires.
OrderedSets ==
    {s \in UNION {[1..n -> Tracked] : n \in 0..Cardinality(Tracked)} :
        \A i, j \in 1..Len(s) : s[i] = s[j] => i = j}

DigestInit ==
    /\ \E s \in OrderedSets : chats = <<[id |-> 1, subs |-> s]>>
    /\ jobs = Registered.jobs
    /\ timers = Registered.timers
    /\ ticks = <<>>
    /\ nUpdates = 0
    /\ trace = <<>>
    /\ alive = TRUE
    /\ handlerRejected = FALSE

DigestNext ==
    \/ \E currency \in PairIds : CallWithin(MaxUpdates, "toggle", 1, currency)
    \/ TimerFire
    \/ \E t \in 1..Len(ticks), p \in Tracked, ok \in BOOLEAN :
           FetchResolve(t, p, ok)
    \/ \E t \in 1..Len(ticks), ok \in BOOLEAN : SendResolve(t, ok)
    \/ UnhandledRejection

DigestSpec == DigestInit /\ [][DigestNext]_vars

\* ------------------------------------------------------- two subscribers
\* The program once chats 1 and 2 have each toggled USDTIRT on: updates
\* from them and from a third chat arrive while the ticks iterate.
ServeInit ==
    /\ chats = <<[id |-> 1, subs |-> <<"USDTIRT">>],
                 [id |-> 2, subs |-> <<"USDTIRT">>]>>
    /\ jobs = Registered.jobs
    /\ timers = Registered.timers
    /\ ticks = <<>>
    /\ nUpdates = 0
    /\ trace = <<>>
    /\ alive = TRUE
    /\ handlerRejected = FALSE

ServeNext ==
    \/ \E c \in PrivateChats \cup {GroupChat}, cmd \in Commands :
           \E currency \in (IF cmd = "toggle" THEN PairIds ELSE {"-"}) :
               UpdateWithin(MaxUpdates - 1, c, cmd, currency, TRUE)
    \/ TimerFire
    \/ \E t \in 1..Len(ticks), p \in Tracked, ok \in BOOLEAN :
           FetchResolve(t, p, ok)
    \/ \E t \in 1..Len(ticks), ok \in BOOLEAN : SendResolve(t, ok)
    \/ UnhandledRejection

ServeSpec == ServeInit /\ [][ServeNext]_vars

\* ------------------------------------------------------ confirm and serve
\* The two subscribers of ServeInit, of whom either may press the confirm
\* button, as may later chats; trace lists the chats whose confirm reached
\* the handler, in the order of their first one.
Confirm(c) ==
    /\ UpdateStep(MaxUpdates - 1, c, "confirm", "-", TRUE)
    /\ trace' = IF initializeChatIfAbsent(chats, c).next /\ c \notin Range(trace)
                THEN Append(trace, c)
                ELSE trace

ConfirmNext ==
    \/ \E c \in PrivateChats \cup {GroupChat} : Confirm(c)
    \/ TimerFire
    \/ \E t \in 1..Len(ticks), p \in Tracked, ok \in BOOLEAN :
           FetchResolve(t, p, ok)
    \/ \E t \in 1..Len(ticks), ok \in BOOLEAN : SendResolve(t, ok)
    \/ UnhandledRejection

ConfirmSpec == ServeInit /\ [][ConfirmNext]_vars

\* ------------------------------------------------- the scheduler on its own
\* SchedulerService as any caller may use it: scheduleJob, scheduleOnce and
\* cancelJob with any name and task, and the timers firing. It starts with
\* no job (jobs = {}). trace holds the last operation with the scheduler
\* state it ran on; nUpdates counts the operations.
SchedInit ==
    /\ chats = <<>>
    /\ jobs = NoJobs.jobs
    /\ timers = NoJobs.timers
    /\ ticks = <<>>
    /\ nUpdates = 0
    /\ trace = <<>>
    /\ alive = TRUE
    /\ handlerRejected = FALSE

SchedStep(op, name, id, s) ==
    /\ nUpdates < MaxSchedOps
    /\ jobs' = s.jobs
    /\ timers' = s.timers
    /\ trace' = <<[op |-> op, name |-> name, id |-> id,
                   pre |-> [jobs |-> jobs, timers |-> timers]]>>
    /\ nUpdates' = nUpdates + 1
    /\ UNCHANGED <<chats, ticks, alive, handlerRejected>>

Sched == [jobs |-> jobs, timers |-> timers]

ScheduleJobCall(name, task) ==
    SchedStep("scheduleJob", name, 0, scheduleJob(Sched, name, task))

ScheduleOnceCall(name, task) ==
    SchedStep("scheduleOnce", name, 0, scheduleOnce(Sched, name, task))

CancelJobCall(name) ==
    SchedStep("cancelJob", name, 0, cancelJob(Sched, name))

Fire(id) ==
    /\ timers[id].live
    /\ SchedStep("fire", timers[id].name, id, FireTimer(Sched, id))

SchedNext ==
    \/ \E name \in JobNames, task \in Tasks : ScheduleJobCall(name, task)
    \/ \E name \in JobNames, task \in Tasks : ScheduleOnceCall(name, task)
    \/ \E name \in JobNames : CancelJobCall(name)
    \/ \E id \in 1..Len(timers) : Fire(id)

SchedulerSpec == SchedInit /\ [][SchedNext]_vars

\* ---------------------------------------------------------------- claims

\* The chats a tick has called sendMessage for.
Served(tk) == {tk.sent[k].chat : k \in 1..Len(tk.sent)}

\* The chats whose set was not empty when the tick started.
SubscribedAtStart(tk) ==
    {tk.start[i].id : i \in {j \in 1..Len(tk.start) : Len(tk.start[j].subs) > 0}}

Over(tk) == tk.pc \in {"done", "rejected"}

\* C1: when the send to one subscriber fails, the failure is caught and the
\* tick goes on with the next subscriber whose set is not empty: in the step
\* in which a send fails, sendMessage is called for that subscriber.
C1_SendFailureContained ==
    [][\A t \in 1..Len(ticks) :
          (/\ ticks[t].pc = "sending"
           /\ ticks'[t].sent[Len(ticks[t].sent)].status = "fail"
           /\ NextRecipient(chats, ticks[t].idx + 1) # 0)
          => /\ ticks'[t].pc = "sending"
             /\ Len(ticks'[t].sent) = Len(ticks[t].sent) + 1
             /\ Last(ticks'[t].sent).chat =
                    chats[NextRecipient(chats, ticks[t].idx + 1)].id]_vars

\* C2: the recipients of a tick and the pairs of each digest are those of
\* the registry when the tick started: every send goes to a chat subscribed
\* then, with the set it had then, and a tick whose sends all succeeded has
\* served exactly the chats subscribed then.
C2_TickUsesStartRegistry ==
    \A t \in 1..Len(ticks) :
        /\ \A k \in 1..Len(ticks[t].sent) :
               LET e == ticks[t].sent[k]
               IN  /\ e.chat \in SubscribedAtStart(ticks[t])
                   /\ e.subs = SubsOf(ticks[t].start, e.chat)
        /\ ticks[t].pc = "done" => Served(ticks[t]) = SubscribedAtStart(ticks[t])

\* C3: in a tick where a fetch failed, every other pair was fetched and,
\* once the tick is over, every chat subscribed to a pair whose fetch
\* succeeded (at the start of the tick, and still) has been sent the price
\* line of that pair.
C3_FetchFailureIsolated ==
    \A t \in 1..Len(ticks) :
        (Over(ticks[t]) /\ \E p \in Tracked : ticks[t].fetch[p] = "fail")
        => /\ \A q \in Tracked : ticks[t].calls[q] = 1
           /\ \A i \in 1..Len(ticks[t].start), q \in Tracked :
                  (/\ ticks[t].fetch[q] = "ok"
                   /\ SetHas(ticks[t].start[i].subs, q)
                   /\ SetHas(chats[i].subs, q))
                  => \E k \in 1..Len(ticks[t].sent) :
                         /\ ticks[t].sent[k].chat = ticks[t].start[i].id
                         /\ \E n \in 1..Len(ticks[t].sent[k].lines) :
                                ticks[t].sent[k].lines[n] =
                                    [pair |-> q, kind |-> "price", price |-> Quote]

\* C4: a tick that starts on an empty registry calls the price source for
\* no pair and sends nothing, whatever is registered afterwards.
C4_EmptyRegistryNoCalls ==
    \A t \in 1..Len(ticks) :
        Len(ticks[t].start) = 0
        => /\ \A p \in Tracked : ticks[t].calls[p] = 0
           /\ ticks[t].fetch = [p \in Tracked |-> "none"]
           /\ ticks[t].sent = <<>>

C4_Witness ==
    \E t \in 1..Len(ticks) :
        /\ Len(ticks[t].start) = 0
        /\ ticks[t].pc = "skipped"
        /\ \E i \in 1..Len(chats) : Len(chats[i].subs) > 0

\* C5: no sendMessage call is made for a chat whose set is empty: the set
\* read from the entry a send is made for is never empty.
C5_EmptySetNeverSent ==
    \A t \in 1..Len(ticks) :
        \A k \in 1..Len(ticks[t].sent) : Len(ticks[t].sent[k].subs) > 0

\* A finished tick that served someone and passed over a registered chat
\* whose set was empty from the start of the tick on.
C5_Witness ==
    \E t \in 1..Len(ticks) :
        /\ ticks[t].pc = "done"
        /\ Len(ticks[t].sent) > 0
        /\ \E i \in 1..Len(ticks[t].start) :
               /\ ticks[t].start[i].subs = <<>>
               /\ chats[i].subs = <<>>
               /\ chats[i].id \notin Served(ticks[t])

\* C6: a finished tick whose sends all succeeded has sent a digest to every
\* chat that had a subscribed pair when the tick started.
C6_AllSubscribedServed ==
    \A t \in 1..Len(ticks) :
        (/\ ticks[t].pc = "done"
         /\ \A k \in 1..Len(ticks[t].sent) : ticks[t].sent[k].status = "ok")
        => SubscribedAtStart(ticks[t]) \subseteq Served(ticks[t])

\* The set a chat has in a registry, read as a set; none for an absent chat.
Members(reg, c) == IF MapHas(reg, c) THEN Range(SubsOf(reg, c)) ELSE {}

\* The last two calls of the trace are toggles of one pair for one chat.
ToggledTwice ==
    /\ Len(trace) >= 2
    /\ Last(trace).op = "toggle"
    /\ trace[Len(trace) - 1].op = "toggle"
    /\ Last(trace).chat = trace[Len(trace) - 1].chat
    /\ Last(trace).cur = trace[Len(trace) - 1].cur
    /\ MapHas(trace[Len(trace) - 1].pre, Last(trace).chat)

\* C7: for a known chat and any identifier, two toggles in a row with the
\* same arguments leave the chat's set, as a set, as it was before the first.
C7_ToggleTwiceRestores ==
    ToggledTwice
    => /\ Last(trace).err = "none"
       /\ trace[Len(trace) - 1].err = "none"
       /\ Members(chats, Last(trace).chat) =
              Members(trace[Len(trace) - 1].pre, Last(trace).chat)

\* The pair was a member, first of two: it was removed and added again,
\* which moved it to the end of the iteration order.
C7_Witness ==
    /\ ToggledTwice
    /\ Last(trace).cur \in Members(trace[Len(trace) - 1].pre, Last(trace).chat)
    /\ SubsOf(chats, Last(trace).chat) #
           SubsOf(trace[Len(trace) - 1].pre, Last(trace).chat)

\* C8: after clear for a chat, the chat's set in the registry is empty,
\* whatever it held before.
C8_ClearEmpties ==
    (Len(trace) >= 1 /\ Last(trace).op = "clear")
    => /\ Last(trace).err = "none"
       /\ MapHas(chats, Last(trace).chat)
       /\ SubsOf(chats, Last(trace).chat) = <<>>

C8_Witness ==
    /\ Len(trace) >= 1
    /\ Last(trace).op = "clear"
    /\ Cardinality(Members(Last(trace).pre, Last(trace).chat)) >= 2
    /\ SubsOf(chats, Last(trace).chat) = <<>>

C10_UnknownPairRejected ==
    (/\ Len(trace) >= 1
     /\ Last(trace).op = "toggle"
     /\ Last(trace).cur \notin Tracked)
    => /\ Last(trace).err # "none"
       /\ Last(trace).cur \notin Members(chats, Last(trace).chat)

\* C11: every chat's set holds only keys of currencies, whatever
\* identifiers the toggle events carry.
C11_SetsWithinTracked ==
    \A i \in 1..Len(chats) : Range(chats[i].subs) \subseteq Tracked

\* The last scheduler operation.
LastOp == trace[1]

\* The live timers that were registered under a name.
LiveUnder(tm, name) == {i \in 1..Len(tm) : tm[i].live /\ tm[i].name = name}

\* The last operation registered a timer under a name whose entry held one:
\* a scheduleJob or scheduleOnce call, or a firing task that made one.
Replaced ==
    /\ Len(trace) = 1
    /\ LastOp.pre.jobs[LastOp.name] # 0
    /\ \/ LastOp.op \in {"scheduleJob", "scheduleOnce"}
       \/ /\ LastOp.op = "fire"
          /\ LastOp.pre.timers[LastOp.id].task \in {"reJob", "reOnce"}

\* C12: after a registration under a name that holds a job, the timer of
\* that job is not live and has not been invoked by the registration, and
\* the new timer is the only live timer registered under the name.
C12_ReplaceCancelsEarlier ==
    Replaced
    => /\ Len(timers) = Len(LastOp.pre.timers) + 1
       /\ ~timers[LastOp.pre.jobs[LastOp.name]].live
       /\ timers[LastOp.pre.jobs[LastOp.name]].runs =
              LastOp.pre.timers[LastOp.pre.jobs[LastOp.name]].runs
              + (IF LastOp.id = LastOp.pre.jobs[LastOp.name] THEN 1 ELSE 0)
       /\ LiveUnder(timers, LastOp.name) = {Len(timers)}

\* C13: for every name at most one live timer was registered under it.
C13_OneLiveTimerPerName ==
    \A name \in JobNames : Cardinality(LiveUnder(timers, name)) <= 1

\* C14: after a one-shot job fired, the table holds no entry for it and its
\* task was invoked exactly once, also when the task throws.
C14_OneShotRemoved ==
    (/\ Len(trace) = 1
     /\ LastOp.op = "fire"
     /\ timers[LastOp.id].type = "timeout")
    => /\ jobs[LastOp.name] # LastOp.id
       /\ timers[LastOp.id].runs = 1

\* A timer that is not live stays so and its task is not invoked again.
ClearedNeverFires ==
    \A id \in 1..Len(timers) :
        ~timers[id].live
        => ~timers'[id].live /\ timers'[id].runs = timers[id].runs

\* The effect of the last operation, a cancelJob call.
CancelEffect ==
    (Len(trace) = 1 /\ LastOp.op = "cancelJob")
    => IF LastOp.pre.jobs[LastOp.name] # 0
       THEN /\ jobs = [LastOp.pre.jobs EXCEPT ![LastOp.name] = 0]
            /\ timers = [LastOp.pre.timers EXCEPT
                            ![LastOp.pre.jobs[LastOp.name]].live = FALSE]
       ELSE /\ jobs = LastOp.pre.jobs
            /\ timers = LastOp.pre.timers

\* C15: cancelJob of a name with an entry removes the entry and clears its
\* timer, and the task of a cleared timer is never invoked afterwards;
\* cancelJob of a name without entry changes nothing. No other name and no
\* other timer is touched.
C15_CancelStops == []CancelEffect /\ [][ClearedNeverFires]_vars

\* A pending one-shot cancelled while the other name's recurring job runs on.
C15_Witness ==
    /\ Len(trace) = 1
    /\ LastOp.op = "cancelJob"
    /\ LastOp.pre.jobs[LastOp.name] # 0
    /\ LastOp.pre.timers[LastOp.pre.jobs[LastOp.name]].type = "timeout"
    /\ LastOp.pre.timers[LastOp.pre.jobs[LastOp.name]].live
    /\ LiveUnder(timers, LastOp.name) = {}
    /\ \E other \in JobNames \ {LastOp.name} :
           jobs[other] # 0 /\ timers[jobs[other]].live

\* A fetch or a send of the tick failed.
TickFailed(tk) ==
    \/ \E p \in Tracked : tk.fetch[p] = "fail"
    \/ \E k \in 1..Len(tk.sent) : tk.sent[k].status = "fail"

\* C16: no outcome of a tick ends the process or removes the job: whenever
\* a fetch or a send of a tick has failed, the process is running and the
\* job 'sendPriceUpdate' is registered with a live timer, so that a later
\* tick can start.
C16_JobKeepsFiring ==
    \A t \in 1..Len(ticks) :
        TickFailed(ticks[t])
        => /\ alive
           /\ jobs[JobName] # 0
           /\ timers[jobs[JobName]].live

\* C17: a tick that starts with at least one registered chat calls the
\* price source exactly once for each tracked pair, however many chats are
\* registered and whatever they subscribed to.
C17_OneFetchPerPair ==
    \A t \in 1..Len(ticks) :
        Len(ticks[t].start) > 0
        => \A p \in Tracked : ticks[t].calls[p] = 1

\* A finished tick that served two chats subscribed to the same pair.
C17_Witness ==
    \E t \in 1..Len(ticks) :
        /\ ticks[t].pc = "done"
        /\ Len(ticks[t].start) >= 2
        /\ Len(ticks[t].sent) >= 2
        /\ \E p \in Tracked :
               /\ ticks[t].calls[p] = 1
               /\ \A k \in 1..Len(ticks[t].sent) :
                      SetHas(ticks[t].sent[k].subs, p)

\* C18: a digest has exactly one line for each identifier in the set of the
\* chat it is sent to, the price line when the fetch of that pair
\* succeeded, and no line for anything outside the set, whatever the other
\* fetches did.
C18_DigestMatchesSet ==
    \A t \in 1..Len(ticks) :
        \A k \in 1..Len(ticks[t].sent) :
            LET e == ticks[t].sent[k]
            IN  /\ Len(e.lines) = Len(e.subs)
                /\ \A n \in 1..Len(e.lines) :
                       /\ e.lines[n].pair = e.subs[n]
                       /\ ticks[t].fetch[e.subs[n]] = "ok"
                          => e.lines[n] = [pair  |-> e.subs[n],
                                           kind  |-> "price",
                                           price |-> Quote]

\* The last call, an ensure.
Ensured == Len(trace) >= 1 /\ Last(trace).op = "ensure"

Cancelled == Len(trace) = 1 /\ trace[1].op = "cancelJob"

\* C21: after cancelJob of the recurring job no new tick starts, and a tick
\* that was in flight at the cancellation makes its remaining sends: once
\* it is over, every chat that was subscribed when it started, and still
\* is, has been sent its digest.
C21_CancelLeavesTickRunning ==
    Cancelled
    => /\ Len(ticks) = trace[1].started
       /\ \A t \in trace[1].inflight :
              Over(ticks[t])
              => \A i \in 1..Len(ticks[t].start) :
                     (ticks[t].start[i].subs # <<>> /\ chats[i].subs # <<>>)
                     => ticks[t].start[i].id \in Served(ticks[t])

\* The mark the keyboard of the last call shows for an identifier.
Reported(cur) ==
    \E n \in 1..Len(Last(trace).kb) :
        Last(trace).kb[n].currency = cur /\ Last(trace).kb[n].isActive

\* C22: the keyboard a toggle replies with marks the toggled identifier
\* active exactly when it is a member of the chat's set after the toggle.
C22_ToggleReportsMembership ==
    (Len(trace) >= 1 /\ Last(trace).op = "toggle" /\ Last(trace).err = "none")
    => (Reported(Last(trace).cur)
           <=> Last(trace).cur \in Members(chats, Last(trace).chat))

\* The error line of a pair.
ErrorLine(p) == [pair |-> p, kind |-> "error", price |-> 0]

\* C23: once a tick in which the fetch of a pair failed is over, sendMessage
\* was called for every chat subscribed to that pair (at the start of the
\* tick, and still) with a digest that carries the error line of the pair.
C23_FailedPairErrorLine ==
    \A t \in 1..Len(ticks) :
        \A p \in Tracked :
            (Over(ticks[t]) /\ ticks[t].fetch[p] = "fail")
            => \A i \in 1..Len(ticks[t].start) :
                   (/\ SetHas(ticks[t].start[i].subs, p)
                    /\ SetHas(chats[i].subs, p))
                   => \E k \in 1..Len(ticks[t].sent) :
                          /\ ticks[t].sent[k].chat = ticks[t].start[i].id
                          /\ \E n \in 1..Len(ticks[t].sent[k].lines) :
                                 ticks[t].sent[k].lines[n] = ErrorLine(p)

\* A sequence without an identifier.
Without(s, x) == SelectSeq(s, LAMBDA y : y # x)

\* The last two calls toggled a member of the chat's set off and on again.
ToggledOffAndOn ==
    /\ ToggledTwice
    /\ Last(trace).cur \in Members(trace[Len(trace) - 1].pre, Last(trace).chat)

\* C24: the lines of a digest name the tracked pairs of the set the digest
\* was built from, in the iteration order of that set; and toggling a
\* member off and on again makes it the last of the set, the others
\* keeping their order.
C24_LinesInSetOrder ==
    /\ \A t \in 1..Len(ticks) :
           \A k \in 1..Len(ticks[t].sent) :
               LET e == ticks[t].sent[k]
               IN  [n \in 1..Len(e.lines) |-> e.lines[n].pair] =
                       SelectSeq(e.subs, LAMBDA p : p \in Tracked)
    /\ ToggledOffAndOn
       => LET new == SubsOf(chats, Last(trace).chat)
              old == SubsOf(trace[Len(trace) - 1].pre, Last(trace).chat)
          IN  /\ Last(new) = Last(trace).cur
              /\ Without(new, Last(trace).cur) = Without(old, Last(trace).cur)

\* The chat toggled the first of its two tracked pairs off and on, and the
\* digest built from its set afterwards has the line of that pair last.
C24_Witness ==
    /\ ToggledOffAndOn
    /\ Last(trace).cur \in Tracked
    /\ trace[Len(trace) - 1].pre[1].subs[1] = Last(trace).cur
    /\ \E t \in 1..Len(ticks) :
           \E k \in 1..Len(ticks[t].sent) :
               LET e == ticks[t].sent[k]
               IN  /\ e.subs = SubsOf(chats, Last(trace).chat)
                   /\ ticks[t].start = chats
                   /\ Len(e.lines) = 2
                   /\ e.lines[2].pair = Last(trace).cur

\* C25: at any time at most one tick is in flight.
C25_TicksDoNotOverlap == Cardinality(InFlight(ticks)) <= 1

\* The timer of the job fires in this step.
JobTimerFires ==
    \E id \in 1..Len(timers) :
        /\ timers[id].name = JobName
        /\ timers'[id].runs = timers[id].runs + 1

\* C26: a firing of the job's timer while a tick is awaiting a fetch or a
\* send starts a new tick in the same step and leaves the earlier ticks as
\* they are.
C26_FiringStartsTick ==
    [][(JobTimerFires /\ InFlight(ticks) # {})
       => /\ Len(ticks') = Len(ticks) + 1
          /\ SubSeq(ticks', 1, Len(ticks)) = ticks
          /\ Last(ticks').pc = "fetching"
          /\ Last(ticks').start = chats]_vars

\* A tick started while an earlier one was awaiting its send: both in flight.
C26_Witness ==
    \E t \in 1..Len(ticks) :
        /\ t < Len(ticks)
        /\ ticks[t].pc = "sending"
        /\ Last(ticks).pc = "fetching"
        /\ timers[jobs[JobName]].runs = Len(ticks)

\* The sends of a tick that have not settled.
Outstanding(tk) == {k \in 1..Len(tk.sent) : tk.sent[k].status = "pending"}

\* C27: a tick never has two sends outstanding: a send is outstanding only
\* as the last call made, every earlier send having settled.
C27_SendsSequential ==
    \A t \in 1..Len(ticks) :
        /\ Cardinality(Outstanding(ticks[t])) <= 1
        /\ \A k \in 1..Len(ticks[t].sent) :
               k < Len(ticks[t].sent) => ticks[t].sent[k].status # "pending"

\* The first send was delivered and the second is outstanding.
C27_Witness ==
    \E t \in 1..Len(ticks) :
        /\ Len(ticks[t].sent) = 2
        /\ ticks[t].sent[1].status = "ok"
        /\ ticks[t].sent[2].status = "pending"
        /\ ticks[t].sent[1].chat # ticks[t].sent[2].chat

\* C28: a tick calls sendMessage only when the fetch of every tracked pair
\* has settled, and while it awaits the fetches every one of them has been
\* started.
C28_FetchesBeforeSends ==
    \A t \in 1..Len(ticks) :
        /\ ticks[t].sent # <<>>
           => \A p \in Tracked : ticks[t].fetch[p] \in {"ok", "fail"}
        /\ ticks[t].pc = "fetching"
           => \A p \in Tracked :
                  ticks[t].calls[p] = 1 /\ ticks[t].fetch[p] # "none"

\* The first digest goes out after one fetch gave a price and one failed.
C28_Witness ==
    \E t \in 1..Len(ticks) :
        /\ ticks[t].pc = "sending"
        /\ Len(ticks[t].sent) = 1
        /\ \E p, q \in Tracked :
               ticks[t].fetch[p] = "ok" /\ ticks[t].fetch[q] = "fail"

\* C29: after a command whose handler failed, the process is running and
\* the recurring job is registered with a live timer.
C29_HandlerFailureContained ==
    handlerRejected
    => /\ alive
       /\ jobs[JobName] # 0
       /\ timers[jobs[JobName]].live

\* The identifiers of the chats in a registry.
Ids(reg) == {reg[i].id : i \in 1..Len(reg)}

\* C30: no step removes a chat from the registry.
C30_RegistryOnlyGrows == [][Ids(chats) \subseteq Ids(chats')]_vars

\* A chat that was subscribed when the tick started has emptied its set
\* since and is still registered.
C30_Witness ==
    \E t \in 1..Len(ticks) :
        \E i \in 1..Len(ticks[t].start) :
            /\ ticks[t].start[i].subs # <<>>
            /\ chats[i].id = ticks[t].start[i].id
            /\ chats[i].subs = <<>>


\* A tick that returned: at the size check, after the loop, or by rejecting.
Finished(tk) == tk.pc \in {"skipped", "done", "rejected"}

\* C31: a price fetch or a send that never completes does not block a tick:
\* every tick that has started eventually finishes.
C31_TickTerminates ==
    \A t \in 1..MaxTicks :
        [](Len(ticks) >= t => <>(Len(ticks) >= t /\ Finished(ticks[t])))


\* C32: the jobs table and the live timers agree: every live timer is the
\* timer recorded under its name, and every entry of the table refers to a
\* live timer.
C32_TableMatchesTimers ==
    /\ \A id \in 1..Len(timers) :
           timers[id].live => jobs[timers[id].name] = id
    /\ \A name \in JobNames :
           jobs[name] # 0 => timers[jobs[name]].live

\* C33: every digest handed to the notifier has at least one pair line
\* after the header.
C33_NoHeaderOnlyDigest ==
    \A t \in 1..Len(ticks) :
        \A k \in 1..Len(ticks[t].sent) : Len(ticks[t].sent[k].lines) >= 1


\* The last update came from the group chat.
FromGroupChat == Len(trace) = 1 /\ trace[1].chat = GroupChat

\* C34: an update from a chat that is neither private nor an allowed
\* channel or supergroup creates no registry entry and reaches no handler:
\* the registry is as it was before the update, holds no entry for the
\* chat, next() was not called and no handler promise was rejected by it.
C34_OtherChatsDropped ==
    /\ ~MapHas(chats, GroupChat)
    /\ FromGroupChat
       => /\ chats = trace[1].pre
          /\ ~trace[1].next
          /\ handlerRejected = trace[1].rejected

\* The group chat sent a toggle while a private chat is subscribed and no
\* handler promise has been rejected.
C34_Witness ==
    /\ FromGroupChat
    /\ trace[1].cmd = "toggle"
    /\ ~handlerRejected
    /\ \E i \in 1..Len(chats) : Len(chats[i].subs) > 0


\* The tick started with at least one registered chat and every set empty.
StartedAllEmpty(tk) ==
    /\ Len(tk.start) >= 1
    /\ \A i \in 1..Len(tk.start) : tk.start[i].subs = <<>>

\* C35: the size check counts entries, not subscriptions: a tick that
\* starts with registered chats whose sets are all empty is not skipped,
\* calls the price source once for every tracked pair and sends no message.
C35_EmptySetsStillFetch ==
    \A t \in 1..Len(ticks) :
        StartedAllEmpty(ticks[t])
        => /\ ticks[t].pc # "skipped"
           /\ \A p \in Tracked : ticks[t].calls[p] = 1
           /\ ticks[t].sent = <<>>


\* C36: a tick hands at most one digest to the notifier for any chat: no
\* two sendMessage calls of a tick go to the same chat, whatever updates
\* arrive while the tick iterates the registry.
C36_OneDigestPerChat ==
    \A t \in 1..Len(ticks) :
        \A j, k \in 1..Len(ticks[t].sent) :
            ticks[t].sent[j].chat = ticks[t].sent[k].chat => j = k

\* A tick has sent to both chats, and the set of the chat served first was
\* replaced after the tick had read it.
C36_Witness ==
    \E t \in 1..Len(ticks) :
        /\ Len(ticks[t].sent) = 2
        /\ ticks[t].sent[1].subs # SubsOf(chats, ticks[t].sent[1].chat)
        /\ ticks[t].pc = "done"


\* The last call was a toggle or a clear.
ToggledOrCleared ==
    Len(trace) >= 1 /\ Last(trace).op \in {"toggle", "clear"}

\* C37: a toggle or a clear for one chat leaves every other chat as it was,
\* registered or not and with the same set, and a toggle of one pair leaves
\* the membership of every other identifier in the chat's set as it was.
C37_OthersUntouched ==
    ToggledOrCleared
    => /\ \A other \in PrivateChats \ {Last(trace).chat} :
              /\ MapHas(chats, other) <=> MapHas(Last(trace).pre, other)
              /\ MapHas(chats, other)
                 => SubsOf(chats, other) = SubsOf(Last(trace).pre, other)
       /\ Last(trace).op = "toggle"
          => \A q \in PairIds \ {Last(trace).cur} :
                 q \in Members(chats, Last(trace).chat)
                 <=> q \in Members(Last(trace).pre, Last(trace).chat)

\* A chat that holds one pair toggled the other on while another chat
\* holds a pair.
C37_Witness ==
    /\ ToggledOrCleared
    /\ Last(trace).op = "toggle"
    /\ Last(trace).err = "none"
    /\ Members(Last(trace).pre, Last(trace).chat) # {}
    /\ Last(trace).cur \in Members(chats, Last(trace).chat)
    /\ \E other \in PrivateChats \ {Last(trace).chat} :
           Members(chats, other) # {}


\* No step changes or removes an entry the registry holds.
EntriesKept ==
    /\ Len(chats') >= Len(chats)
    /\ \A i \in 1..Len(chats) : chats'[i] = chats[i]

\* A tick whose loop ended has sent to every chat that holds a pair, with
\* the set the chat holds, and equal sets got equal lines.
ServedAlike ==
    \A t \in 1..Len(ticks) :
        ticks[t].pc = "done"
        => /\ \A i \in 1..Len(chats) :
                  chats[i].subs # <<>>
                  => \E k \in 1..Len(ticks[t].sent) :
                         /\ ticks[t].sent[k].chat = chats[i].id
                         /\ ticks[t].sent[k].subs = chats[i].subs
           /\ \A j, k \in 1..Len(ticks[t].sent) :
                  ticks[t].sent[j].subs = ticks[t].sent[k].subs
                  => ticks[t].sent[j].lines = ticks[t].sent[k].lines

\* C38: the confirm action never changes the registry (while chats press
\* confirm and ticks run, no entry of the registry changes), and delivery
\* does not depend on it: a tick serves a chat that toggled a pair on and
\* never confirmed exactly as it serves one that confirmed.
C38_ConfirmNotNeeded == []ServedAlike /\ [][EntriesKept]_vars

\* Chat 1 confirmed, chat 2 never did, and a tick has sent both the same
\* lines.
C38_Witness ==
    /\ 1 \in Range(trace)
    /\ 2 \notin Range(trace)
    /\ \E t \in 1..Len(ticks) :
           /\ ticks[t].pc = "done"
           /\ \E j, k \in 1..Len(ticks[t].sent) :
                  /\ ticks[t].sent[j].chat = 1
                  /\ ticks[t].sent[k].chat = 2
                  /\ ticks[t].sent[j].lines = ticks[t].sent[k].lines
                  /\ Len(ticks[t].sent[k].lines) >= 1

====
